---- MODULE Spec2Model ----
(***************************************************************************)
(* A model of subcommands.py: the directory crawl (fetch_log_links), the   *)
(* record extraction of one log (process_log_file), the deduplicating      *)
(* persistence (save_to_json) and the run loop (process_all_log_files).    *)
(*                                                                         *)
(* Text is modelled at the level of symbols: a URL is the sequence of its  *)
(* '/'-separated parts (what str.split("/") returns), a log line is a      *)
(* sequence of symbols (a brace, a blank, a word, the command marker, ...) *)
(* and a JSON value is a record tree.                                      *)
(***************************************************************************)
EXTENDS Integers, Sequences, FiniteSets, TLC

VARIABLES
    complete_url,          \* the URL chosen by navigation_folder (its split("/") parts)
    dirs,                  \* directories that exist on disk (os.makedirs)
    files,                 \* path -> content of the destination documents on disk
    global_output_hashes,  \* the module-level set of output hashes
    status,                \* "running", "done" or "crashed" (an uncaught exception)
    calls,                 \* history: one record per save_to_json call of the run
    site,                  \* the server: directory URL -> the hrefs of its listing page
    failing,               \* the URLs whose request fails
    log_links_dict,        \* directory URL -> its log links, in insertion order
    lines,                 \* the lines of a log, from a command marker line on
    scan,                  \* what the brace scan of lines ended with
    web,                   \* log URL -> how its request ends and the text served
    subcomponent_filter,   \* the filter typed after the navigation ("" for none)
    pc,                    \* the commands process_log_file has saved in this run
    cursor,                \* the position of the run loop among the log links
    temp_file,             \* whether temp_file.log exists
    uncaught,              \* the uncaught exception that ended the run, if any
    requested,             \* history: the log URLs requested so far
    noskip                 \* the same run with the processed-command skip disabled

saveVars == <<dirs, files, global_output_hashes, calls>>
crawlVars == <<site, failing, log_links_dict>>
scanVars == <<lines, scan>>
runVars == <<web, subcomponent_filter, pc, cursor, temp_file, uncaught, requested, noskip>>
vars == <<complete_url, status, saveVars, crawlVars, scanVars, runVars>>

(***************************************************************************)
(* Bounds of the model.                                                    *)
(***************************************************************************)
\* the number of folders navigation_folder may descend below the base URL
MaxNav == 3
\* the number of save_to_json calls of one run
MaxCalls == 3
\* the number of directories of a crawled site below its top directory
MaxDirs == 3
\* the number of characters that follow a command marker line
MaxText == 6
\* the number of log folders of a processed site
MaxLogDirs == 2

(***************************************************************************)
(* Sequences helpers.                                                      *)
(***************************************************************************)
\* Python's 0-based indexing of a list
Py(seq, i) == seq[i + 1]

Front(seq) == SubSeq(seq, 1, Len(seq) - 1)

Range(seq) == {seq[i] : i \in DOMAIN seq}

SetMin(S) == CHOOSE m \in S : \A n \in S : m <= n

RECURSIVE Concat(_)
Concat(seqs) == IF seqs = <<>> THEN <<>> ELSE Head(seqs) \o Concat(Tail(seqs))

(***************************************************************************)
(* URLs.  "http://host/a/b/".split("/") = <<"http:", "", "host", "a", "b", *)
(* "">>: a directory URL ends with the empty part.                         *)
(***************************************************************************)
\* url = "http://magna002.ceph.redhat.com/cephci-jenkins/results/openstack/RH/"
BaseUrl ==
    <<"http:", "", "magna002.ceph.redhat.com", "cephci-jenkins", "results",
      "openstack", "RH", "">>

\* An href of a listing page: its text without the ending, and how it ends
\* ("/" for a directory, ".log" for a log file, "" for anything else).
\* seg = ".." with ends = "/" is the link to the parent directory.
Href(seg, ends) == [seg |-> seg, ends |-> ends]

\* urllib.parse.urljoin(url, href) for a directory URL (one ending in "/")
urljoin(url, href) ==
    IF href.ends = "/"
    THEN IF href.seg = ".."
         THEN IF Len(url) > 4
              THEN Append(SubSeq(url, 1, Len(url) - 2), "")
              ELSE url
         ELSE Front(url) \o <<href.seg, "">>
    ELSE Front(url) \o <<href.seg>>

\* requests.get(url) followed by raise_for_status(): the hrefs of the page,
\* or a RequestException when the URL is not served or the request fails
Get(pages, bad, url) ==
    IF url \in DOMAIN pages /\ url \notin bad
    THEN [ok |-> TRUE, hrefs |-> pages[url]]
    ELSE [ok |-> FALSE, hrefs |-> <<>>]

\* fdf(base_url): the folders of a listing, without the parent link
fdf(pages, base_url) ==
    LET response == Get(pages, {}, base_url)
    IN  IF response.ok
        THEN LET folder == SelectSeq(response.hrefs,
                               LAMBDA href : href.ends = "/" /\ href.seg # "..")
             IN  [i \in DOMAIN folder |-> folder[i].seg]
        ELSE <<>>

\* navigation_folder(base_url): every URL reached from the base URL by
\* choosing one of the listed folders at most n times and then "0" (or by
\* running out of folders).
RECURSIVE NavigatedUrls(_, _)
NavigatedUrls(pages, n) ==
    IF n = 0
    THEN {BaseUrl}
    ELSE LET prev == NavigatedUrls(pages, n - 1)
         IN  prev \cup
             UNION {{urljoin(c, Href(fdf(pages, c)[i], "/")) : i \in DOMAIN fdf(pages, c)} :
                      c \in prev}

\* A server with one folder at each level below the base URL.
LevelFolders == <<"8.6", "rhel-8", "Regression", "16.2.10", "rgw", "tier-1">>

RECURSIVE ChainUrl(_)
ChainUrl(depth) ==
    IF depth = 0 THEN BaseUrl
    ELSE urljoin(ChainUrl(depth - 1), Href(LevelFolders[depth], "/"))

ChainSite ==
    [url \in {ChainUrl(d) : d \in 0..Len(LevelFolders)} |->
        LET d == Len(url) - Len(BaseUrl)
        IN  <<Href("..", "/")>> \o
            (IF d < Len(LevelFolders) THEN <<Href(LevelFolders[d + 1], "/")>> ELSE <<>>)]

(***************************************************************************)
(* JSON values.  A value is a record: t = "lit" with the literal in v, or  *)
(* t = "obj" with the members (key, value) in insertion order in m.        *)
(***************************************************************************)
KeyNames == <<"a", "b">>

Lit(v) == [t |-> "lit", v |-> v, m |-> <<>>]
Obj(m) == [t |-> "obj", v |-> "", m |-> m]
Member(k, val) == [k |-> k, val |-> val]

\* the members of an object in the order of their keys
SortByKey(m) ==
    LET F[i \in 0..Len(KeyNames)] ==
            IF i = 0 THEN <<>>
            ELSE F[i - 1] \o SelectSeq(m, LAMBDA e : e.k = KeyNames[i])
    IN  F[Len(KeyNames)]

\* json.dumps(value, sort_keys=True): the serialization is determined by the
\* value with the members of every object sorted by key.
RECURSIVE Canonical(_)
Canonical(value) ==
    IF value.t = "obj"
    THEN Obj(SortByKey([i \in DOMAIN value.m |->
                           Member(value.m[i].k, Canonical(value.m[i].val))]))
    ELSE value

\* hashlib.sha256(json.dumps(output, sort_keys=True).encode()).hexdigest():
\* a digest is taken to identify the serialization it is computed from.
OutputHash(output) == Canonical(output)

(***************************************************************************)
(* The brace scan of process_log_file (lines 197-215).  A line is a        *)
(* sequence of characters; a symbol longer than one character (a word, a   *)
(* JSON token) holds no brace.                                             *)
(***************************************************************************)
ScanState(stack, json_content, error) ==
    [stack |-> stack, json_content |-> json_content, error |-> error]

NotScanned == [stack |-> <<>>, json_content |-> <<>>, error |-> "not scanned"]

NoError == [at |-> 0, kind |-> ""]

\* no log is being processed
NoRun ==
    /\ web = << >>
    /\ subcomponent_filter = ""
    /\ pc = {}
    /\ cursor = 0
    /\ temp_file = FALSE
    /\ uncaught = NoError
    /\ requested = <<>>
    /\ noskip = [status |-> "none"]

\* lines 203-213: the characters of one line, from the k-th on.  It ends at
\* the end of the line, at the '}' that empties the stack (break), or with
\* the IndexError of stack.pop() on an empty stack.
RECURSIVE ScanLine(_, _, _, _)
ScanLine(line, k, stack, json_content) ==
    IF k > Len(line)
    THEN ScanState(stack, json_content, "")
    ELSE LET char == line[k]
             pushed == IF char = "{" THEN Append(stack, "{") ELSE stack
             content == IF pushed # <<>> THEN Append(json_content, char) ELSE json_content
         IN  IF char = "}"
             THEN IF pushed = <<>>
                  THEN ScanState(pushed, content, "IndexError")
                  ELSE IF Front(pushed) = <<>>
                  THEN ScanState(<<>>, content, "")
                  ELSE ScanLine(line, k + 1, Front(pushed), content)
             ELSE ScanLine(line, k + 1, pushed, content)

\* lines 202-215: the lines from the j-th on (j counts from 1)
RECURSIVE ScanLines(_, _, _, _)
ScanLines(text, j, stack, json_content) ==
    IF j > Len(text)
    THEN ScanState(stack, json_content, "")
    ELSE LET after == ScanLine(text[j], 1, stack, json_content)
         IN  IF after.error # "" THEN after
             ELSE IF after.stack = <<>> /\ after.json_content # <<>> THEN after
             ELSE ScanLines(text, j + 1, after.stack, after.json_content)

\* file.readlines(): the text cut after every newline
RECURSIVE ReadLines(_)
ReadLines(text) ==
    IF text = <<>> THEN <<>>
    ELSE LET ends == {k \in DOMAIN text : text[k] = "\n"}
         IN  IF ends = {} THEN <<text>>
             ELSE <<SubSeq(text, 1, SetMin(ends))>>
                  \o ReadLines(SubSeq(text, SetMin(ends) + 1, Len(text)))

(***************************************************************************)
(* Commands.  A command is the symbols of the log line from 'radosgw-admin'*)
(* on: words and blanks.                                                   *)
(***************************************************************************)
Words == {"bucket", "user", "list", "stats"}

\* re.search(r'radosgw-admin (\w+)', command): the word after the first
\* 'radosgw-admin ' that is followed by a word; "" when there is none.
Subcommand(command) ==
    LET hits == {p \in 1..(Len(command) - 2) :
                    /\ command[p] = "radosgw-admin"
                    /\ command[p + 1] = " "
                    /\ command[p + 2] \in Words}
    IN  IF hits = {} THEN "" ELSE command[SetMin(hits) + 2]

\* f"{subcommand}_outputs.json"
OutputsFile(subcommand) ==
    CASE subcommand = "bucket" -> "bucket_outputs.json"
      [] subcommand = "user" -> "user_outputs.json"
      [] subcommand = "list" -> "list_outputs.json"
      [] subcommand = "stats" -> "stats_outputs.json"

\* os.path.join(path, part): an empty part only adds a trailing separator
PathJoin(path, part) == IF part = "" THEN path ELSE Append(path, part)

(***************************************************************************)
(* Destination documents.                                                  *)
(***************************************************************************)
Entry(command, output) ==
    [command |-> command, output |-> output, output_hash |-> OutputHash(output)]

Document(version, outputs) == [valid |-> TRUE, ceph_version |-> version, outputs |-> outputs]

\* a file whose content json.load rejects (a write cut short by a crash)
InvalidDocument == [valid |-> FALSE, ceph_version |-> "", outputs |-> <<>>]

HashesOf(doc) == {doc.outputs[i].output_hash : i \in DOMAIN doc.outputs}

CountHash(doc, h) == Cardinality({i \in DOMAIN doc.outputs : doc.outputs[i].output_hash = h})

\* complete_url.split("/") has the parts url_parts[7], [8] and [10]
VersionDerivable(url) == Len(url) >= 11

\* lines 103-118: the directory of the version hierarchy
VersionDir(url) ==
    PathJoin(PathJoin(PathJoin(<<"Suriya">>, Py(url, 7)), Py(url, 8)), Py(url, 10))

\* line 124
FileName(url, subcommand) == PathJoin(VersionDir(url), OutputsFile(subcommand))

Prefixes(path) == {SubSeq(path, 1, n) : n \in 1..Len(path)}

(***************************************************************************)
(* save_to_json(command, output, ceph_version).  ceph_version is not read. *)
(***************************************************************************)
CallRecord(command, output, file, before, wasGlobal, result) ==
    [command |-> command, output |-> output, output_hash |-> OutputHash(output),
     file |-> file, before |-> before, wasGlobal |-> wasGlobal, result |-> result]

\* lines 127-135: the document loaded from file_name, or a new one when the
\* file is missing or json.load raises JSONDecodeError
LoadDocument_NoReinit(fs, file_name, version) ==
    IF file_name \in DOMAIN fs THEN fs[file_name] ELSE Document(version, <<>>)

LoadDocument(fs, file_name, version) ==
    IF file_name \in DOMAIN fs /\ fs[file_name].valid
    THEN fs[file_name]
    ELSE Document(version, <<>>)

\* line 141: output_hash in global_output_hashes
SeenGlobally(hashes, output_hash) == output_hash \in hashes

\* line 145: any(entry["output_hash"] == output_hash for entry in data["outputs"])
InDocument_Never(data, output_hash) == FALSE

InDocument(data, output_hash) == output_hash \in HashesOf(data)

\* line 158: global_output_hashes.add(output_hash)
AddGlobal_Forgotten(hashes, output_hash) == hashes

AddGlobal(hashes, output_hash) == hashes \cup {output_hash}

\* The effect of one call on (dirs, files, global_output_hashes), and how it
\* ended: "IndexError", "dropped", "skipped-global", "skipped-file", "written".
SaveEffect(url, ds, fs, hashes, command, output) ==
    LET output_hash == OutputHash(output)
        subcommand == Subcommand(command)
    IN  IF ~VersionDerivable(url)
        THEN \* url_parts[8] or url_parts[10] raises IndexError after makedirs(base_dir)
             [dirs |-> ds \cup {<<"Suriya">>}, files |-> fs, hashes |-> hashes,
              result |-> "IndexError", file |-> <<>>, before |-> "none"]
        ELSE
        LET made == ds \cup Prefixes(VersionDir(url))
        IN  IF subcommand = ""
            THEN [dirs |-> made, files |-> fs, hashes |-> hashes,
                  result |-> "dropped", file |-> <<>>, before |-> "none"]
            ELSE
            LET file_name == FileName(url, subcommand)
                before == IF file_name \notin DOMAIN fs THEN "absent"
                          ELSE IF fs[file_name].valid THEN "valid" ELSE "invalid"
                data == LoadDocument(fs, file_name, Py(url, 10))
            IN  IF SeenGlobally(hashes, output_hash)
                THEN [dirs |-> made, files |-> fs, hashes |-> hashes,
                      result |-> "skipped-global", file |-> file_name, before |-> before]
                ELSE IF ~InDocument(data, output_hash)
                THEN LET written == [data EXCEPT !.outputs = Append(@, Entry(command, output))]
                     IN  [dirs |-> made,
                          files |-> [p \in DOMAIN fs \cup {file_name} |->
                                        IF p = file_name THEN written ELSE fs[p]],
                          hashes |-> AddGlobal(hashes, output_hash),
                          result |-> "written", file |-> file_name, before |-> before]
                ELSE [dirs |-> made, files |-> fs, hashes |-> hashes,
                      result |-> "skipped-file", file |-> file_name, before |-> before]

(***************************************************************************)
(* The persistence engine under any sequence of calls.                     *)
(***************************************************************************)
cBucketList == <<"radosgw-admin", " ", "bucket", " ", "list">>
cBucketStats == <<"radosgw-admin", " ", "bucket", " ", "stats">>
cUserList == <<"radosgw-admin", " ", "user", " ", "list">>
cVersion == <<"radosgw-admin", " ", "--version">>

oAB == Obj(<<Member("a", Lit("1")), Member("b", Lit("2"))>>)
oBA == Obj(<<Member("b", Lit("2")), Member("a", Lit("1"))>>)
oNested == Obj(<<Member("a", Obj(<<Member("b", Lit("1"))>>))>>)

\* the (command, output) pairs the calls are drawn from
SaveInputs ==
    {<<cBucketList, oAB>>, <<cBucketList, oBA>>, <<cBucketList, oNested>>,
     <<cBucketStats, oAB>>, <<cUserList, oBA>>, <<cUserList, oNested>>,
     <<cVersion, oAB>>}

\* What a destination document can hold when the run starts: an unparsable
\* file, or what an earlier run wrote (no file at all is the third case).
EarlierContents(subcommand) ==
    IF subcommand = "bucket"
    THEN {InvalidDocument, Document("16.2.10", <<Entry(cBucketList, oAB)>>),
          Document("16.2.10", <<Entry(cBucketStats, oNested)>>)}
    ELSE {InvalidDocument, Document("16.2.10", <<Entry(cUserList, oAB)>>)}

DiskChoices(url) ==
    IF ~VersionDerivable(url)
    THEN {<< >>}
    ELSE LET bucket == FileName(url, "bucket")
             user == FileName(url, "user")
         IN  {<< >>}
             \cup {[p \in {bucket} |-> b] : b \in EarlierContents("bucket")}
             \cup {[p \in {user} |-> u] : u \in EarlierContents("user")}
             \cup {[p \in {bucket, user} |-> IF p = bucket THEN b ELSE u] :
                     b \in EarlierContents("bucket"), u \in EarlierContents("user")}

InitSave ==
    /\ site = ChainSite
    /\ failing = {}
    /\ log_links_dict = <<>>
    /\ complete_url \in NavigatedUrls(site, MaxNav)
    /\ dirs = {}
    /\ files \in DiskChoices(complete_url)
    /\ global_output_hashes = {}
    /\ status = "running"
    /\ calls = <<>>
    /\ lines = <<>>
    /\ scan = NotScanned
    /\ NoRun

save_to_json(command, output) ==
    /\ status = "running"
    /\ Len(calls) < MaxCalls
    /\ LET e == SaveEffect(complete_url, dirs, files, global_output_hashes, command, output)
       IN  /\ dirs' = e.dirs
           /\ files' = e.files
           /\ global_output_hashes' = e.hashes
           /\ status' = IF e.result = "IndexError" THEN "crashed" ELSE "running"
           /\ calls' = Append(calls,
                  CallRecord(command, output, e.file, e.before,
                             OutputHash(output) \in global_output_hashes, e.result))
    /\ UNCHANGED <<complete_url, crawlVars, scanVars, runVars>>

SaveCall == \E input \in SaveInputs : save_to_json(input[1], input[2])

NextSave == SaveCall

SpecSave == InitSave /\ [][NextSave]_vars

(***************************************************************************)
(* Claims about save_to_json, under SpecSave.                              *)
(***************************************************************************)
\* the number of entries with hash h in the document at path file
DocCount(file, h) ==
    IF file \in DOMAIN files /\ files[file].valid THEN CountHash(files[file], h) ELSE 0

Returned(call) == call.result \in {"written", "skipped-global", "skipped-file"}

\* C1: for every output hash at most one save_to_json call of the run
\* appends an entry, whatever the commands and destination documents.
C1_GlobalUniqueness ==
    \A i, j \in DOMAIN calls :
        (/\ calls[i].result = "written"
         /\ calls[j].result = "written"
         /\ calls[i].output_hash = calls[j].output_hash) => i = j

\* two outputs that differ only in key order, aimed at different documents:
\* the first is written and the second is skipped
C1_Witness ==
    \E i, j \in DOMAIN calls :
        /\ i < j
        /\ calls[i].result = "written"
        /\ calls[j].result = "skipped-global"
        /\ calls[i].output # calls[j].output
        /\ calls[i].output_hash = calls[j].output_hash
        /\ calls[i].file # calls[j].file

\* C2 as claimed: the same (command, output) pair saved twice leaves exactly
\* one entry with that hash in the destination document and the second call
\* is skipped.
C2_IdempotenceExactlyOne ==
    \A i, j \in DOMAIN calls :
        (/\ i < j
         /\ calls[i].command = calls[j].command
         /\ calls[i].output = calls[j].output
         /\ Returned(calls[i]) /\ Returned(calls[j])) =>
            /\ calls[j].result \in {"skipped-global", "skipped-file"}
            /\ DocCount(calls[j].file, calls[j].output_hash) = 1

\* C2 amended: the second call is skipped and the destination document holds
\* at most one entry with that hash: exactly one unless the first call was
\* itself skipped as a global duplicate.
C2_IdempotenceAtMostOne ==
    \A i, j \in DOMAIN calls :
        (/\ i < j
         /\ calls[i].command = calls[j].command
         /\ calls[i].output = calls[j].output
         /\ Returned(calls[i]) /\ Returned(calls[j])) =>
            /\ calls[j].result \in {"skipped-global", "skipped-file"}
            /\ DocCount(calls[j].file, calls[j].output_hash) <= 1
            /\ calls[i].result # "skipped-global" =>
                  DocCount(calls[j].file, calls[j].output_hash) = 1

\* the pair is written, another call comes in between, the pair is skipped
C2_Witness ==
    \E i, j \in DOMAIN calls :
        /\ i + 1 < j
        /\ calls[i].command = calls[j].command
        /\ calls[i].output = calls[j].output
        /\ calls[i].result = "written"
        /\ calls[j].result = "skipped-global"
        /\ DocCount(calls[j].file, calls[j].output_hash) = 1

\* C7 as claimed: a record goes to <base>/<top>/<mid>/<full>/<file> when the
\* root location has the version segments and to <base>/<file> when it has
\* not; the call does not fail.
C7_VersionLayoutOrFallback ==
    \A i \in DOMAIN calls :
        Subcommand(calls[i].command) # "" =>
            LET name == OutputsFile(Subcommand(calls[i].command))
            IN  /\ Returned(calls[i])
                /\ calls[i].file =
                      IF Len(complete_url) >= 11
                      THEN SelectSeq(<<"Suriya", complete_url[8], complete_url[9],
                                       complete_url[11], name>>, LAMBDA part : part # "")
                      ELSE <<"Suriya", name>>

\* a call of a run whose root location is too short for the version segments
C7_Witness ==
    \E i \in DOMAIN calls :
        /\ Subcommand(calls[i].command) # ""
        /\ Len(complete_url) < 11

\* C8 as claimed: a call aimed at an unparsable document leaves it valid,
\* holding the new record alone.
C8_MalformedAlwaysRewritten ==
    (calls # <<>> /\ calls[Len(calls)].before = "invalid") =>
        LET call == calls[Len(calls)]
        IN  /\ Returned(call)
            /\ call.file \in DOMAIN files
            /\ files[call.file].valid
            /\ files[call.file].outputs = <<Entry(call.command, call.output)>>

\* C8 amended: a call aimed at an unparsable document leaves it valid,
\* holding the new record alone, unless the record's hash is already in
\* global_output_hashes: then nothing is written and the file stays
\* unparsable.
C8_MalformedRewrittenUnlessGlobal ==
    (calls # <<>> /\ calls[Len(calls)].before = "invalid") =>
        LET call == calls[Len(calls)]
        IN  /\ call.file \in DOMAIN files
            /\ IF call.wasGlobal
               THEN /\ call.result = "skipped-global"
                    /\ files[call.file] = InvalidDocument
               ELSE /\ call.result = "written"
                    /\ files[call.file].valid
                    /\ files[call.file].outputs = <<Entry(call.command, call.output)>>

\* an unparsable document rewritten by a call whose hash was not yet global
C8_Witness ==
    /\ calls # <<>>
    /\ calls[Len(calls)].before = "invalid"
    /\ calls[Len(calls)].result = "written"
    /\ files[calls[Len(calls)].file].valid

\* C9 as claimed: the skipped-file path adds the hash to
\* global_output_hashes, so every later record with that output is skipped
\* as a global duplicate.
C9_SkippedFileAddsGlobal ==
    \A i \in DOMAIN calls :
        calls[i].result = "skipped-file" =>
            /\ calls[i].output_hash \in global_output_hashes
            /\ \A j \in DOMAIN calls :
                  (/\ i < j
                   /\ calls[j].output_hash = calls[i].output_hash
                   /\ Subcommand(calls[j].command) # "") =>
                      calls[j].result = "skipped-global"

\* a record found in its document, then the same output aimed elsewhere
C9_Witness ==
    \E i, j \in DOMAIN calls :
        /\ i < j
        /\ calls[i].result = "skipped-file"
        /\ calls[j].output_hash = calls[i].output_hash
        /\ calls[j].file # calls[i].file
        /\ calls[j].result = "written"

(***************************************************************************)
(* fetch_log_links(url, base_url, allow).  log_links_dict is an insertion- *)
(* ordered dict: a sequence of (key, value) items.                         *)
(***************************************************************************)
DictKeys(dict) == {dict[i].key : i \in DOMAIN dict}

DictGet(dict, key) == dict[CHOOSE i \in DOMAIN dict : dict[i].key = key].value

\* dict[key] = value
DictSet(dict, key, value) ==
    IF key \in DictKeys(dict)
    THEN [i \in DOMAIN dict |-> IF dict[i].key = key THEN [key |-> key, value |-> value]
                                ELSE dict[i]]
    ELSE Append(dict, [key |-> key, value |-> value])

\* lines 86-87: append the log link unless the list has it
AddLogLink(dict, url, absolute_url) ==
    IF \E i \in DOMAIN DictGet(dict, url) : DictGet(dict, url)[i].opt_in = absolute_url
    THEN dict
    ELSE DictSet(dict, url, Append(DictGet(dict, url), [opt_in |-> absolute_url]))

RECURSIVE fetch_log_links(_, _, _), ScanLinks(_, _, _, _)

\* lines 80-91: the loop over the <a> tags of one page, from the first of hrefs on
ScanLinks(dict, url, hrefs, allow) ==
    IF hrefs = <<>>
    THEN dict
    ELSE LET href == Head(hrefs)
             absolute_url == urljoin(url, href)
             next == IF href.ends = ".log"
                     THEN AddLogLink(dict, url, absolute_url)
                     ELSE IF href.ends = "/" /\ allow
                     THEN fetch_log_links(dict, absolute_url, FALSE)
                     ELSE dict
         IN  ScanLinks(next, url, Tail(hrefs), allow)

\* the crawl with the directory branch never taken
fetch_log_links_NoDescent(dict, url, allow) ==
    LET started == IF url \in DictKeys(dict) THEN dict ELSE DictSet(dict, url, <<>>)
        response == Get(site, failing, url)
    IN  IF response.ok THEN ScanLinks(started, url, response.hrefs, FALSE) ELSE started

\* the dict after fetch_log_links(url, base_url, allow) on dict
fetch_log_links(dict, url, allow) ==
    LET started == IF url \in DictKeys(dict) THEN dict ELSE DictSet(dict, url, <<>>)
        response == Get(site, failing, url)
    IN  IF response.ok THEN ScanLinks(started, url, response.hrefs, allow) ELSE started

(***************************************************************************)
(* The crawl of any small site.                                            *)
(***************************************************************************)
DirNames == <<"A", "B">>

\* the sets of directories of the sites with at most n directories below
\* the base URL
RECURSIVE DirTrees(_)
DirTrees(n) ==
    IF n = 0
    THEN {{BaseUrl}}
    ELSE LET smaller == DirTrees(n - 1)
         IN  smaller \cup
             UNION {{tree \cup {urljoin(d, Href(DirNames[i], "/"))} :
                        d \in tree, i \in DOMAIN DirNames} : tree \in smaller}

\* The listing page of directory d of a site: the parent link (when the
\* server shows one), the sub-directories, the log file of the directory
\* (linked from its icon and from its name) and a file that is no log.
ListingPage(tree, d, parentLinks) ==
    (IF parentLinks THEN <<Href("..", "/")>> ELSE <<>>)
    \o SelectSeq([i \in DOMAIN DirNames |-> Href(DirNames[i], "/")],
                 LAMBDA href : urljoin(d, href) \in tree)
    \o <<Href("run.log", ".log"), Href("run.log", ".log"), Href("README", "")>>

Sites ==
    {[d \in tree |-> ListingPage(tree, d, parentLinks)] :
        tree \in DirTrees(MaxDirs), parentLinks \in BOOLEAN}

InitCrawl ==
    /\ site \in Sites
    /\ failing \in {{}} \cup {{d} : d \in DOMAIN site}
    /\ complete_url \in NavigatedUrls(site, MaxNav)
    /\ log_links_dict = <<>>
    /\ status = "start"
    /\ dirs = {}
    /\ files = << >>
    /\ global_output_hashes = {}
    /\ calls = <<>>
    /\ lines = <<>>
    /\ scan = NotScanned
    /\ NoRun

\* line 243: fetch_log_links(url)
FetchLogLinks ==
    /\ status = "start"
    /\ log_links_dict' = fetch_log_links(log_links_dict, complete_url, TRUE)
    /\ status' = "crawled"
    /\ UNCHANGED <<complete_url, site, failing, saveVars, scanVars, runVars>>

NextCrawl == FetchLogLinks

SpecCrawl == InitCrawl /\ [][NextCrawl]_vars

(***************************************************************************)
(* Claims about fetch_log_links, under SpecCrawl.                          *)
(***************************************************************************)
\* the directories a page links to, and the log files it links to
LinkedDirs(url) ==
    {urljoin(url, href) : href \in {h \in Range(Get(site, failing, url).hrefs) : h.ends = "/"}}

LinkedLogs(url) ==
    {urljoin(url, href) : href \in {h \in Range(Get(site, failing, url).hrefs) : h.ends = ".log"}}

CollectedLogs(key) ==
    {DictGet(log_links_dict, key)[i].opt_in : i \in DOMAIN DictGet(log_links_dict, key)}

NoDuplicateLinks ==
    \A key \in DictKeys(log_links_dict) :
        Cardinality(CollectedLogs(key)) = Len(DictGet(log_links_dict, key))

ScanAlphabet == {"{", "}", "x", "\n"}

MarkerLine == <<"M", " ", "bucket", " ", "list", "\n">>

InitScan ==
    /\ \E n \in 0..MaxText : \E text \in [1..n -> ScanAlphabet] :
          lines = <<MarkerLine>> \o ReadLines(text)
    /\ scan = NotScanned
    /\ NoRun
    /\ complete_url = BaseUrl
    /\ status = "start"
    /\ site = << >>
    /\ failing = {}
    /\ log_links_dict = <<>>
    /\ dirs = {}
    /\ files = << >>
    /\ global_output_hashes = {}
    /\ calls = <<>>

\* lines 197-215 for the marker in the first line
ScanBraces ==
    /\ scan = NotScanned
    /\ scan' = ScanLines(lines, 2, <<>>, <<>>)
    /\ UNCHANGED <<lines, complete_url, status, saveVars, crawlVars, runVars>>

NextScan == ScanBraces

SpecScan == InitScan /\ [][NextScan]_vars

(***************************************************************************)
(* Claims about the brace scan, under SpecScan.                            *)
(***************************************************************************)
\* the characters that follow the marker line
Following == Concat(Tail(lines))

Count(text, char, from, to) == Cardinality({k \in from..to : text[k] = char})

FirstOpen == SetMin({k \in DOMAIN Following : Following[k] = "{"})

\* the positions of the '}' at which the depth counted from the first '{' is 0
Closings ==
    {k \in (FirstOpen + 1)..Len(Following) :
        /\ Following[k] = "}"
        /\ Count(Following, "{", FirstOpen, k) = Count(Following, "}", FirstOpen, k)}

\* C6 as claimed: when the lines after the marker hold a '{', the scan does
\* not fail, and the candidate is the text from the first '{' through the
\* first '}' that brings the depth back to 0.
C6_BalancedCapture ==
    (scan # NotScanned /\ "{" \in Range(Following)) =>
        /\ scan.error = ""
        /\ Closings # {} =>
              scan.json_content = SubSeq(Following, FirstOpen, SetMin(Closings))

\* a '}' comes before the first '{'
C6_Witness ==
    /\ scan # NotScanned
    /\ "{" \in Range(Following)
    /\ "}" \in Range(SubSeq(Following, 1, FirstOpen))
    /\ Closings # {}

\* the part of C6 the code keeps: with no '}' before the first '{' the scan
\* does not fail and captures the balanced text
C6_BalancedCaptureNoStrayClose ==
    (/\ scan # NotScanned
     /\ "{" \in Range(Following)
     /\ "}" \notin Range(SubSeq(Following, 1, FirstOpen))) =>
        /\ scan.error = ""
        /\ Closings # {} =>
              scan.json_content = SubSeq(Following, FirstOpen, SetMin(Closings))

(***************************************************************************)
(* Text of a log line: str.strip, str.split, slices and joins over symbols.*)
(***************************************************************************)
Whitespace == {" ", "\n"}

RECURSIVE LStrip(_, _)
LStrip(text, chars) ==
    IF text # <<>> /\ Head(text) \in chars THEN LStrip(Tail(text), chars) ELSE text

RECURSIVE RStrip(_, _)
RStrip(text, chars) ==
    IF text # <<>> /\ text[Len(text)] \in chars THEN RStrip(Front(text), chars) ELSE text

\* str.strip()
Strip(text) == RStrip(LStrip(text, Whitespace), Whitespace)

\* str.split(): the maximal runs of characters that are not whitespace
RECURSIVE Split(_)
Split(text) ==
    LET rest == LStrip(text, Whitespace)
    IN  IF rest = <<>> THEN <<>>
        ELSE LET blanks == {k \in DOMAIN rest : rest[k] \in Whitespace}
                 stop == IF blanks = {} THEN Len(rest) + 1 ELSE SetMin(blanks)
             IN  <<SubSeq(rest, 1, stop - 1)>> \o Split(SubSeq(rest, stop, Len(rest)))

\* str.split("."): the parts between the dots, empty ones included
RECURSIVE SplitDots(_)
SplitDots(text) ==
    LET dots == {k \in DOMAIN text : text[k] = "."}
    IN  IF dots = {} THEN <<text>>
        ELSE <<SubSeq(text, 1, SetMin(dots) - 1)>>
             \o SplitDots(SubSeq(text, SetMin(dots) + 1, Len(text)))

\* seq[from:to] for 0 <= from <= to
Slice(seq, from, to) ==
    SubSeq(seq, from + 1, IF to < Len(seq) THEN to ELSE Len(seq))

\* ".".join(parts)
RECURSIVE JoinDots(_)
JoinDots(parts) ==
    IF parts = <<>> THEN <<>>
    ELSE IF Len(parts) = 1 THEN parts[1]
    ELSE parts[1] \o <<".">> \o JoinDots(Tail(parts))

\* line 184: 'cephadm shell -- radosgw-admin' in line; "M" is that text
IsMarkerLine(line) == "M" \in Range(line)

\* lines 186-187 need lines[i + 2] and its sixth token (i counts from 1 here)
VersionLineOk(text, i) == i + 2 <= Len(text) /\ Len(Split(Strip(text[i + 2]))) >= 6

\* line 187: ".".join(version_line.split()[5].split(".")[6:9])
CephVersion(version_line) == JoinDots(Slice(SplitDots(Py(Split(version_line), 5)), 6, 9))

\* lines 190-191: the line from the first 'radosgw-admin' on, without the
\* newlines at its end
CommandOf(line) ==
    LET index == SetMin({k \in DOMAIN line : line[k] \in {"M", "radosgw-admin"}})
    IN  RStrip(<<"radosgw-admin">> \o SubSeq(line, index + 1, Len(line)), {"\n"})

(***************************************************************************)
(* json.loads of a candidate.  The JSON tokens are symbols: a brace, a     *)
(* comma, a quoted key with its colon, a literal.                          *)
(***************************************************************************)
Literals == {"1", "2", "true", "false"}

KeyTokens == {"\"a\":", "\"b\":"}

KeyOf(token) == IF token = "\"a\":" THEN "a" ELSE "b"

\* lines 219-224: ' becomes ", True becomes true, False becomes false
Cleaned(json_content) ==
    Strip([k \in DOMAIN json_content |->
              CASE json_content[k] = "'a':" -> "\"a\":"
                [] json_content[k] = "'b':" -> "\"b\":"
                [] json_content[k] = "True" -> "true"
                [] json_content[k] = "False" -> "false"
                [] OTHER -> json_content[k]])

NoValue == [t |-> "none", v |-> "", m |-> <<>>]

Parsed(value, next) == [ok |-> TRUE, value |-> value, next |-> next]

ParseFailure == [ok |-> FALSE, value |-> NoValue, next |-> 0]

\* a later member with the same key replaces the value of the earlier one
PutMember(members, key, value) ==
    IF \E k \in DOMAIN members : members[k].k = key
    THEN [k \in DOMAIN members |->
             IF members[k].k = key THEN Member(key, value) ELSE members[k]]
    ELSE Append(members, Member(key, value))

RECURSIVE ParseValue(_, _), ParseMembers(_, _, _)

\* the value that starts at tokens[at]
ParseValue(tokens, at) ==
    IF at > Len(tokens) THEN ParseFailure
    ELSE IF tokens[at] \in Literals THEN Parsed(Lit(tokens[at]), at + 1)
    ELSE IF tokens[at] = "{"
    THEN IF at + 1 <= Len(tokens) /\ tokens[at + 1] = "}"
         THEN Parsed(Obj(<<>>), at + 2)
         ELSE ParseMembers(tokens, at + 1, <<>>)
    ELSE ParseFailure

\* the members of an object from tokens[at] on, after the members read
ParseMembers(tokens, at, members) ==
    IF at > Len(tokens) \/ tokens[at] \notin KeyTokens THEN ParseFailure
    ELSE LET value == ParseValue(tokens, at + 1)
         IN  IF ~value.ok \/ value.next > Len(tokens) THEN ParseFailure
             ELSE LET now == PutMember(members, KeyOf(tokens[at]), value.value)
                  IN  IF tokens[value.next] = "}" THEN Parsed(Obj(now), value.next + 1)
                      ELSE IF tokens[value.next] = ","
                      THEN ParseMembers(tokens, value.next + 1, now)
                      ELSE ParseFailure

\* json.loads(text), NoValue for a JSONDecodeError
json_loads(text) ==
    LET tokens == SelectSeq(text, LAMBDA char : char \notin Whitespace)
        parsed == ParseValue(tokens, 1)
    IN  IF parsed.ok /\ parsed.next = Len(tokens) + 1 THEN parsed.value ELSE NoValue

\* line 232: "if json_output"
Truthy(value) ==
    \/ value.t = "obj" /\ value.m # <<>>
    \/ value.t = "lit" /\ value.v # "false"

(***************************************************************************)
(* process_log_file(file_url, pc): the loop over the lines (183-234).      *)
(***************************************************************************)
Progress(ds, fs, hashes, done, version, exception) ==
    [dirs |-> ds, files |-> fs, hashes |-> hashes, pc |-> done,
     ceph_version |-> version, exception |-> exception]

\* line 194: command in pc
AlreadyProcessed(done, command) == command \in done

\* lines 233-234: the state after save_to_json has ended as `saved`
Saved(saved, done, command, ceph_version) ==
    IF saved.result = "IndexError"
    THEN Progress(saved.dirs, saved.files, saved.hashes, done, ceph_version,
                  "IndexError: url_parts")
    ELSE Progress(saved.dirs, saved.files, saved.hashes, done \cup {command},
                  ceph_version, "")

\* Lines 184-234 for the i-th line (i counts from 1), from the state `at`:
\* the state after it, with the IndexError of the version line (186-187),
\* of stack.pop() (211) or of url_parts (109-110) when one is raised.
\* usePc is FALSE in the run that has the processed-command skip disabled.
ProcessLine(url, text, i, at, usePc) ==
    IF ~IsMarkerLine(text[i]) THEN at
    ELSE IF ~VersionLineOk(text, i)
    THEN [at EXCEPT !.exception = "IndexError: version line"]
    ELSE
    LET ceph_version == CephVersion(Strip(text[i + 2]))
        command == CommandOf(text[i])
        versioned == [at EXCEPT !.ceph_version = ceph_version]
    IN  IF usePc /\ AlreadyProcessed(at.pc, command)
        THEN versioned
        ELSE
        LET scanned == ScanLines(text, i + 1, <<>>, <<>>)
        IN  IF scanned.error # ""
            THEN [versioned EXCEPT !.exception = "IndexError: stack.pop"]
            ELSE
            LET json_output == IF scanned.json_content # <<>>
                               THEN json_loads(Cleaned(scanned.json_content))
                               ELSE NoValue
            IN  IF ~Truthy(json_output)
                THEN versioned
                ELSE
                Saved(SaveEffect(url, at.dirs, at.files, at.hashes, command, json_output),
                      at.pc, command, ceph_version)

\* line 183: the loop over the lines, from the i-th on, until an exception
RECURSIVE ProcessLines(_, _, _, _, _)
ProcessLines(url, text, i, at, usePc) ==
    IF i > Len(text) \/ at.exception # "" THEN at
    ELSE ProcessLines(url, text, i + 1, ProcessLine(url, text, i, at, usePc), usePc)

\* line 236 is not reached when an exception ends the loop
Processed(end) ==
    [dirs |-> end.dirs, files |-> end.files, hashes |-> end.hashes,
     pc |-> end.pc, exception |-> end.exception, temp |-> end.exception # ""]

\* process_log_file(file_url, pc) on the response of requests.get(file_url):
\* what it leaves of (dirs, files, hashes, pc), the exception it lets out
\* ("" for none) and whether temp_file.log is left behind.
process_log_file(url, response, ds, fs, hashes, done, usePc) ==
    IF response.outcome = "transport_error"
    THEN \* line 166 is outside the try block
         [dirs |-> ds, files |-> fs, hashes |-> hashes, pc |-> done,
          exception |-> "ConnectionError", temp |-> FALSE]
    ELSE IF response.outcome = "http_error"
    THEN \* raise_for_status() raises inside the try block: lines 238-239
         [dirs |-> ds, files |-> fs, hashes |-> hashes, pc |-> done,
          exception |-> "", temp |-> FALSE]
    ELSE Processed(ProcessLines(url, ReadLines(response.text), 1,
                                Progress(ds, fs, hashes, done, <<>>, ""), usePc))

(***************************************************************************)
(* process_all_log_files(url, subcomponent_filter).                        *)
(***************************************************************************)
\* the log links in the order the two loops (246-249) reach them
AllLinks(dict) == Concat([i \in DOMAIN dict |-> dict[i].value])

\* str.lower() of the names that occur
Lower(name) ==
    CASE name = "RGW-tests" -> "rgw-tests"
      [] name = "RGW-upgrade" -> "rgw-upgrade"
      [] name = "RBD" -> "rbd"
      [] name = "Regression" -> "regression"
      [] OTHER -> name

\* needle in text, for the lower-case names that occur
Contains(text, needle) ==
    \/ text = needle
    \/ needle = "rgw" /\ text \in {"rgw-tests", "rgw-upgrade"}
    \/ needle = "rbd" /\ text \in {"rbd-tests"}

\* lines 251-255: the link is skipped without a request
FilteredOut(link, filter) ==
    LET folder_name == link.opt_in[Len(link.opt_in) - 1]
    IN  filter # "" /\ ~Contains(Lower(folder_name), Lower(filter))

(***************************************************************************)
(* A run over a site of a few log folders, each holding one log.           *)
(***************************************************************************)
RunFolders == <<"RGW-tests", "rbd-tests", "RGW-upgrade", "rgw">>

FolderUrl(root, k) == urljoin(root, Href(RunFolders[k], "/"))

LogUrl(root, k) == urljoin(FolderUrl(root, k), Href("run.log", ".log"))

\* the navigated server with the log folders below root
RunSite(root) ==
    LET folders == {FolderUrl(root, k) : k \in 1..MaxLogDirs}
    IN  [url \in DOMAIN ChainSite \cup folders |->
            IF url = root
            THEN <<Href("..", "/")>> \o [k \in 1..MaxLogDirs |-> Href(RunFolders[k], "/")]
            ELSE IF url \in folders
            THEN <<Href("..", "/"), Href("run.log", ".log")>>
            ELSE ChainSite[url]]

LineOf(command) == <<"M">> \o Tail(command) \o <<"\n">>

Filler == <<"x", "\n">>

VersionLine ==
    <<"t", " ", "t", " ", "t", " ", "t", " ", "t", " ",
      "c", ".", "e", ".", "p", ".", "h", ".", "v", ".", "x", ".",
      "16", ".", "2", ".", "10", ".", "el8", "\n">>

ShortVersionLine == <<"t", " ", "t", "\n">>

\* a marker line, a line, the version line and the lines of the output
Record(command, output) == LineOf(command) \o Filler \o VersionLine \o output

jAB == <<"{", "'a':", "1", ",", " ", "'b':", "2", "}", "\n">>
jBA == <<"{", "\"b\":", "2", ",", "\"a\":", "1", "}", "\n">>
jB1 == <<"{", "\"b\":", "1", "}", "\n">>
jNested == <<"{", "\"a\":", " ", "{", "\n", "\"b\":", "1", "}", "}", " ", "x", "\n">>
jTrue == <<"{", "'a':", "True", "}", "\n">>
jBad == <<"{", "bucket", "}", "\n">>
jEmpty == <<"{", "}", "\n">>

LogCatalogue ==
    {Record(cBucketList, jAB),
     Record(cBucketList, jB1),
     Record(cUserList, jBA),
     Record(cBucketStats, jNested) \o Record(cVersion, jTrue),
     Record(cBucketStats, jBad) \o Record(cBucketList, jEmpty) \o Record(cUserList, jB1),
     \* a marker in the last line
     Record(cUserList, jAB) \o LineOf(cBucketList),
     \* a version line of two tokens
     LineOf(cBucketList) \o Filler \o ShortVersionLine \o jAB,
     \* a '}' before the output
     LineOf(cBucketList) \o <<"}", "\n">> \o VersionLine \o jAB}

Served ==
    {[outcome |-> "ok", text |-> text] : text \in LogCatalogue}
    \cup {[outcome |-> "http_error", text |-> <<>>],
          [outcome |-> "transport_error", text |-> <<>>]}

Alive(dirs0, files0, hashes0) ==
    [status |-> "running", dirs |-> dirs0, files |-> files0, hashes |-> hashes0]

\* a root one folder short of the version segments, and one that has them
RunRoots == {url \in NavigatedUrls(ChainSite, MaxNav) : Len(url) \in {10, 11}}

InitRun ==
    /\ complete_url \in RunRoots
    /\ site = RunSite(complete_url)
    /\ failing = {}
    /\ log_links_dict = <<>>
    /\ web \in [{LogUrl(complete_url, k) : k \in 1..MaxLogDirs} -> Served]
    /\ subcomponent_filter \in {"", "rgw", "RBD"}
    /\ status = "start"
    /\ dirs = {}
    /\ files = << >>
    /\ global_output_hashes = {}
    /\ calls = <<>>
    /\ pc = {}
    /\ cursor = 0
    /\ temp_file = FALSE
    /\ uncaught = NoError
    /\ requested = <<>>
    /\ noskip = Alive({}, << >>, {})
    /\ lines = <<>>
    /\ scan = NotScanned

\* the run takes the outcome of process_log_file for the link at the cursor
RunTakes(link, run) ==
    /\ dirs' = run.dirs
    /\ files' = run.files
    /\ global_output_hashes' = run.hashes
    /\ pc' = run.pc
    /\ temp_file' = run.temp
    /\ requested' = Append(requested, link.opt_in)
    /\ status' = IF run.exception # "" THEN "crashed" ELSE status
    /\ uncaught' = IF run.exception # ""
                   THEN [at |-> cursor + 1, kind |-> run.exception]
                   ELSE uncaught

NoSkipTakes(other) ==
    noskip' = [status |-> IF other.exception # "" THEN "crashed" ELSE "running",
               dirs |-> other.dirs, files |-> other.files, hashes |-> other.hashes]

\* lines 249-257: one round of the loop over the log links, in the run and
\* in the run that has the processed-command skip disabled
ProcessRound(link) ==
    /\ IF status = "crawled" /\ ~FilteredOut(link, subcomponent_filter)
       THEN RunTakes(link, process_log_file(complete_url, web[link.opt_in], dirs, files,
                                            global_output_hashes, pc, TRUE))
       ELSE UNCHANGED <<dirs, files, global_output_hashes, pc, temp_file,
                        requested, status, uncaught>>
    /\ IF noskip.status = "running" /\ ~FilteredOut(link, subcomponent_filter)
       THEN NoSkipTakes(process_log_file(complete_url, web[link.opt_in], noskip.dirs,
                                         noskip.files, noskip.hashes, {}, FALSE))
       ELSE UNCHANGED noskip

ProcessLogFile ==
    /\ status = "crawled" \/ (status = "crashed" /\ noskip.status = "running")
    /\ cursor < Len(AllLinks(log_links_dict))
    /\ ProcessRound(AllLinks(log_links_dict)[cursor + 1])
    /\ cursor' = cursor + 1
    /\ UNCHANGED <<complete_url, calls, crawlVars, scanVars, web, subcomponent_filter>>

\* the loops are exhausted
Finish ==
    /\ status = "crawled" \/ (status = "crashed" /\ noskip.status = "running")
    /\ cursor = Len(AllLinks(log_links_dict))
    /\ status' = IF status = "crawled" THEN "done" ELSE status
    /\ noskip' = IF noskip.status = "running" THEN [noskip EXCEPT !.status = "done"]
                 ELSE noskip
    /\ UNCHANGED <<complete_url, saveVars, crawlVars, scanVars, web,
                   subcomponent_filter, pc, cursor, temp_file, uncaught, requested>>

NextRun == FetchLogLinks \/ ProcessLogFile \/ Finish

SpecRun == InitRun /\ [][NextRun]_vars

(***************************************************************************)
(* Claims about the run, under SpecRun.                                    *)
(***************************************************************************)
LinkAt(k) == AllLinks(log_links_dict)[k]

Reached(k) ==
    /\ status # "start"
    /\ k \in 1..cursor
    /\ ~FilteredOut(LinkAt(k), subcomponent_filter)

AbortedAt(k) == status = "crashed" /\ uncaught.at = k

\* C4 as claimed: a resource whose fetch fails (a transport error of the
\* request, or an HTTP error status) is skipped and the run does not abort
\* there.
C4_FetchFailureSkipsResource ==
    \A k \in DOMAIN AllLinks(log_links_dict) :
        (Reached(k) /\ web[LinkAt(k).opt_in].outcome # "ok") => ~AbortedAt(k)

\* a failed fetch with a resource after it
C4_Witness ==
    \E k \in DOMAIN AllLinks(log_links_dict) :
        /\ Reached(k)
        /\ web[LinkAt(k).opt_in].outcome = "transport_error"
        /\ k < Len(AllLinks(log_links_dict))

\* the part of C4 the code keeps: an HTTP error status skips the resource
C4_HttpErrorSkipsResource ==
    \A k \in DOMAIN AllLinks(log_links_dict) :
        (Reached(k) /\ web[LinkAt(k).opt_in].outcome = "http_error") => ~AbortedAt(k)

MalformedVersion(text) ==
    \E i \in DOMAIN text : IsMarkerLine(text[i]) /\ ~VersionLineOk(text, i)

\* C5 as claimed: a marker with a malformed version line does not end the
\* run with the error of the version line.
C5_MalformedVersionNotFatal ==
    \A k \in DOMAIN AllLinks(log_links_dict) :
        (/\ Reached(k)
         /\ web[LinkAt(k).opt_in].outcome = "ok"
         /\ MalformedVersion(ReadLines(web[LinkAt(k).opt_in].text))) =>
            ~(AbortedAt(k) /\ uncaught.kind = "IndexError: version line")

C5_Witness ==
    \E k \in DOMAIN AllLinks(log_links_dict) :
        /\ Reached(k)
        /\ web[LinkAt(k).opt_in].outcome = "ok"
        /\ MalformedVersion(ReadLines(web[LinkAt(k).opt_in].text))
        /\ k < Len(AllLinks(log_links_dict))

\* C10 as claimed: at the end of a run the destination documents are those
\* of the same run with the processed-command skip disabled.
C10_SkipKeepsDocuments ==
    (status = "done" /\ noskip.status = "done") => files = noskip.files

\* what the marker in line i of a log carries: the output the scan and the
\* parse give, NoValue when they give none
CarriedOutput(text, i) ==
    IF ~VersionLineOk(text, i) THEN NoValue
    ELSE LET scanned == ScanLines(text, i + 1, <<>>, <<>>)
             value == IF scanned.error = "" /\ scanned.json_content # <<>>
                      THEN json_loads(Cleaned(scanned.json_content))
                      ELSE NoValue
         IN  IF Truthy(value) THEN value ELSE NoValue

MarkersOf(text) ==
    LET at == SelectSeq([i \in DOMAIN text |-> i], LAMBDA i : IsMarkerLine(text[i]))
    IN  [n \in DOMAIN at |->
            [command |-> CommandOf(text[at[n]]), output |-> CarriedOutput(text, at[n])]]

\* the markers of the logs the run processes, in the order it reaches them
AllMarkers ==
    LET links == SelectSeq(AllLinks(log_links_dict),
                           LAMBDA link : /\ ~FilteredOut(link, subcomponent_filter)
                                         /\ web[link.opt_in].outcome = "ok")
    IN  Concat([k \in DOMAIN links |-> MarkersOf(ReadLines(web[links[k].opt_in].text))])

\* every marker that repeats the command of an earlier marker with an
\* output carries that same output
Agree(markers) ==
    \A a, b \in DOMAIN markers :
        (/\ a < b
         /\ markers[a].command = markers[b].command
         /\ markers[a].output # NoValue) =>
            markers[b].output = markers[a].output

RepeatsAgree == Agree(AllMarkers)

\* some marker repeats the command of an earlier marker with an output
Repeated(markers) ==
    \E a, b \in DOMAIN markers :
        /\ a < b
        /\ markers[a].command = markers[b].command
        /\ markers[a].output # NoValue

\* The documents do equal those of the run with the skip disabled as long as
\* every marker that repeats an earlier command carries the output of that
\* earlier marker: the skip loses a record exactly through a repeated
\* command with another output.
SkipKeepsDocumentsWhenRepeatsAgree ==
    RepeatsAgree =>
        /\ files = noskip.files
        /\ global_output_hashes = noskip.hashes
        /\ (status = "crashed") = (noskip.status = "crashed")

\* both runs end normally after a command came back with another output, and
\* their documents differ
C10_Witness ==
    /\ status = "done"
    /\ noskip.status = "done"
    /\ Repeated(AllMarkers)
    /\ ~RepeatsAgree
    /\ files # noskip.files

====
